---- MODULE Spec2Model ----
(***************************************************************************)
(* Model of the gene coverage analyzer (streamlit_app.py).                 *)
(*                                                                         *)
(* A pandas cell is a tagged record: a missing value (NaN / None), a       *)
(* string (a sequence of one-character strings) or a number (an exact      *)
(* fraction <<numerator, denominator>>, denominator > 0).  Floating-point  *)
(* rounding is not modelled: arithmetic on numbers is exact.               *)
(***************************************************************************)
EXTENDS Integers, Sequences, FiniteSets, TLC

VARIABLES
    rawTable,             \* the raw Excel workbook handed to the aggregator
    aggResult,            \* what preprocess_excel_cached returned for it
    pipeIn,               \* a coverage table, a panel and an auxiliary file
    pipeOut,              \* what the filter, the merge and the builder made of them
    ui,                   \* the widgets: input type radio and file uploaders
    session_state,        \* st.session_state
    run,                  \* what the latest script run showed
    parseIn,              \* a text pasted into the gene text area
    parseOut,             \* what parse_gene_list returned for it
    docIn,                \* a final per-gene table handed to the document builder
    docOut                \* the data rows the builder added to the table

aggVars == <<rawTable, aggResult>>
pipeVars == <<pipeIn, pipeOut>>
appVars == <<ui, session_state, run>>
parseVars == <<parseIn, parseOut>>
docVars == <<docIn, docOut>>
vars == <<rawTable, aggResult, pipeIn, pipeOut, ui, session_state, run,
          parseIn, parseOut, docIn, docOut>>

----------------------------------------------------------------------------
(* Cells *)

NA == [t |-> "na", v |-> <<>>]
Str(s) == [t |-> "str", v |-> s]
Num(n, d) == [t |-> "num", v |-> <<n, d>>]
IsNA(c) == c.t = "na"
IsStr(c) == c.t = "str"
IsNum(c) == c.t = "num"

\* Python truthiness of a cell: NaN is truthy only as a float, here cells
\* tested for truth are strings after fillna('').
Truthy(c) == IsStr(c) /\ c.v # <<>>

\* Series.fillna(value) on one cell
FillNa(c, value) == IF IsNA(c) THEN value ELSE c

----------------------------------------------------------------------------
(* Exact arithmetic on number cells; a missing operand gives a missing     *)
(* result, as NaN does.                                                    *)

RECURSIVE Gcd(_, _)
Gcd(a, b) == IF b = 0 THEN a ELSE Gcd(b, a % b)

Abs(n) == IF n < 0 THEN -n ELSE n

Norm(n, d) ==
    LET g == Gcd(Abs(n), d)
    IN  Num(n \div g, d \div g)

NumMul(a, b) ==
    IF IsNA(a) \/ IsNA(b) THEN NA
    ELSE Norm(a.v[1] * b.v[1], a.v[2] * b.v[2])

NumAdd(a, b) == Norm(a.v[1] * b.v[2] + b.v[1] * a.v[2], a.v[2] * b.v[2])

\* a / b for b # 0
NumDiv(a, b) ==
    IF IsNA(a) \/ IsNA(b) THEN NA
    ELSE IF b.v[1] < 0 THEN Norm(-(a.v[1] * b.v[2]), a.v[2] * (-b.v[1]))
    ELSE Norm(a.v[1] * b.v[2], a.v[2] * b.v[1])

\* a < b ; any comparison with NaN is False
NumLess(a, b) ==
    /\ IsNum(a) /\ IsNum(b)
    /\ a.v[1] * b.v[2] < b.v[1] * a.v[2]

NumLeq(a, b) ==
    /\ IsNum(a) /\ IsNum(b)
    /\ a.v[1] * b.v[2] <= b.v[1] * a.v[2]

\* Series.sum(): missing values are skipped, the empty sum is 0
RECURSIVE SeriesSum(_)
SeriesSum(s) ==
    IF s = <<>> THEN Num(0, 1)
    ELSE IF IsNA(Head(s)) THEN SeriesSum(Tail(s))
    ELSE NumAdd(Head(s), SeriesSum(Tail(s)))

\* Series.min() / Series.max(): missing values are skipped, NaN if none left
RECURSIVE SeriesMin(_)
SeriesMin(s) ==
    IF s = <<>> THEN NA
    ELSE LET rest == SeriesMin(Tail(s))
         IN  IF IsNA(Head(s)) THEN rest
             ELSE IF IsNA(rest) \/ NumLeq(Head(s), rest) THEN Head(s)
             ELSE rest

RECURSIVE SeriesMax(_)
SeriesMax(s) ==
    IF s = <<>> THEN NA
    ELSE LET rest == SeriesMax(Tail(s))
         IN  IF IsNA(Head(s)) THEN rest
             ELSE IF IsNA(rest) \/ NumLeq(rest, Head(s)) THEN Head(s)
             ELSE rest

----------------------------------------------------------------------------
(* Strings *)

\* index of the first occurrence of character ch in s, 0 if absent
FirstIndex(s, ch) ==
    IF \E i \in 1..Len(s) : s[i] = ch
    THEN CHOOSE i \in 1..Len(s) : s[i] = ch /\ \A j \in 1..(i - 1) : s[j] # ch
    ELSE 0

\* s.split(ch)[0]
BeforeFirst(s, ch) ==
    IF FirstIndex(s, ch) = 0 THEN s ELSE SubSeq(s, 1, FirstIndex(s, ch) - 1)

\* Extract the first gene name from comma or semicolon-separated names.
extract_gene_name(name) ==
    IF IsStr(name)
    THEN IF FirstIndex(name.v, ",") # 0 THEN Str(BeforeFirst(name.v, ","))
         ELSE IF FirstIndex(name.v, ";") # 0 THEN Str(BeforeFirst(name.v, ";"))
         ELSE name
    ELSE NA

----------------------------------------------------------------------------
(* Raw Coverage Aggregator: preprocess_excel_cached *)

\* the rows of a sequence at the given (sorted) positions, in row order
RECURSIVE RowsAt(_, _, _)
RowsAt(rows, keep, i) ==
    IF i > Len(rows) THEN <<>>
    ELSE IF i \in keep THEN <<rows[i]>> \o RowsAt(rows, keep, i + 1)
    ELSE RowsAt(rows, keep, i + 1)

Column(rows, f) == [i \in 1..Len(rows) |-> rows[i][f]]

\* data['Gene_Name'] = data['Gene Name'].apply(extract_gene_name)
WithGeneName(rows) ==
    [i \in 1..Len(rows) |->
        [rows[i] EXCEPT !.Gene_Name = extract_gene_name(rows[i].GeneName)]]

\* identifiers = data[['Gene Names', 'Aliases', 'Gene_Name']].fillna('')
Identifiers(data) ==
    [i \in 1..Len(data) |->
        [gene  |-> FillNa(data[i].GeneNames, Str(<<>>)),
         alias |-> FillNa(data[i].Aliases, Str(<<>>)),
         name  |-> FillNa(data[i].Gene_Name, Str(<<>>))]]

\* DataFrame.drop_duplicates(): first occurrences, in row order
RECURSIVE DropDuplicates(_)
DropDuplicates(s) ==
    IF s = <<>> THEN <<>>
    ELSE LET init == DropDuplicates(SubSeq(s, 1, Len(s) - 1))
             last == s[Len(s)]
         IN  IF \E i \in 1..Len(init) : init[i] = last THEN init
             ELSE Append(init, last)

\* the positions of the rows selected for one identity key (lines 98-105);
\* the empty set also for the key with three empty fields
GeneDataIdx(data, key) ==
    IF Truthy(key.gene)
    THEN {i \in 1..Len(data) : data[i].GeneNames = key.gene}
    ELSE IF Truthy(key.alias)
    THEN {i \in 1..Len(data) : data[i].Aliases = key.alias}
    ELSE IF Truthy(key.name)
    THEN {i \in 1..Len(data) : data[i].Name = key.name}
    ELSE {}

GeneData(data, key) == RowsAt(data, GeneDataIdx(data, key), 1)

\* Series * Series, element by element
ColumnProduct(a, b) == [i \in 1..Len(a) |-> NumMul(a[i], b[i])]

TotalCountedBases(gene_data) == SeriesSum(Column(gene_data, "CountedBases"))

\* (gene_data[col] * gene_data['Counted Bases']).sum() / total_counted_bases
WeightedMean(gene_data, col) ==
    NumDiv(SeriesSum(ColumnProduct(Column(gene_data, col),
                                   Column(gene_data, "CountedBases"))),
           TotalCountedBases(gene_data))

\* the minimum depth taken from the first selected row
MinDepthOfFirstRow(gene_data) == gene_data[1].MinDepth

MinDepthOf(gene_data) == SeriesMin(Column(gene_data, "MinDepth"))
MaxDepthOf(gene_data) == SeriesMax(Column(gene_data, "MaxDepth"))

\* the key is skipped: no branch applies, or the counted bases sum to 0
SkippedKey(data, key) ==
    \/ ~(Truthy(key.gene) \/ Truthy(key.alias) \/ Truthy(key.name))
    \/ TotalCountedBases(GeneData(data, key)) = Num(0, 1)

\* the summary dict of one key (lines 114-126)
Summary(data, key) ==
    LET gene_data == GeneData(data, key)
    IN  [Region       |-> Str(<<"t", "o", "t", "a", "l">>),
         RefName      |-> IF Truthy(key.gene) THEN key.gene ELSE NA,
         Aliases      |-> IF Truthy(key.alias) THEN key.alias ELSE NA,
         Gene_Name    |-> IF Truthy(key.name) THEN key.name ELSE NA,
         Name         |-> gene_data[1].Name,
         GeneIDs      |-> gene_data[1].GeneIDs,
         CountedBases |-> TotalCountedBases(gene_data),
         MeanDepth    |-> WeightedMean(gene_data, "MeanDepth"),
         MinDepth     |-> MinDepthOf(gene_data),
         MaxDepth     |-> MaxDepthOf(gene_data),
         Pct1x        |-> WeightedMean(gene_data, "Pct1x")]

\* the keys that get a summary, in the order of unique_ids
RECURSIVE KeepEmitted(_, _)
KeepEmitted(data, keys) ==
    IF keys = <<>> THEN <<>>
    ELSE IF SkippedKey(data, Head(keys)) THEN KeepEmitted(data, Tail(keys))
    ELSE <<Head(keys)>> \o KeepEmitted(data, Tail(keys))

EmittedKeys(data) == KeepEmitted(data, DropDuplicates(Identifiers(data)))

\* the result list of the loop over unique_ids
SummaryRows(data) ==
    LET keys == EmittedKeys(data)
    IN  [k \in 1..Len(keys) |-> Summary(data, keys[k])]

\* os.path.splitext(file_name)[0]: the name up to its last dot, the whole
\* name when it has no dot or only a leading one
LastDot(s) ==
    IF \E i \in 1..Len(s) : s[i] = "."
    THEN CHOOSE i \in 1..Len(s) : s[i] = "." /\ \A j \in (i + 1)..Len(s) : s[j] # "."
    ELSE 0

SplitExtBase(s) == IF LastDot(s) <= 1 THEN s ELSE SubSeq(s, 1, LastDot(s) - 1)

\* A DataFrame built from a list of row dicts has the dicts' keys as its
\* columns and no column at all when the list is empty.
SummaryFrame(rows) ==
    [kind |-> "summary", hasCov |-> rows # <<>>, rows |-> rows]

\* preprocess_excel_cached(file_bytes, file_name): the (coverage_df,
\* base_name) pair, or the exception it raises
preprocess_excel_cached(file_bytes, file_name) ==
    IF ~file_bytes.readable THEN [ok |-> FALSE, error |-> "read_excel"]
    ELSE IF ~file_bytes.hasGeneName
    THEN [ok |-> FALSE, error |-> "Column 'Gene Name' not found"]
    ELSE [ok |-> TRUE,
          coverage_df |-> SummaryFrame(SummaryRows(WithGeneName(file_bytes.rows))),
          base_name |-> SplitExtBase(file_name)]

----------------------------------------------------------------------------
(* More strings and numbers *)

\* the characters the model's strings are made of, in code point order
CodePoints ==
    <<"\t", "\n", "\r", " ", ",", "-", ".", "/", "0", "1", "2", "3", "4", "5", "6", "7",
      "8", "9", ":", ";", "A", "B", "C", "G", "I", "X", "Y", "Z", "_", "a", "c",
      "d", "e", "i", "l", "m", "n", "o", "p", "r", "s", "t", "v", "x">>

Ord(ch) == CHOOSE i \in 1..Len(CodePoints) : CodePoints[i] = ch

\* a < b as Python compares strings
RECURSIVE StrLess(_, _)
StrLess(a, b) ==
    IF b = <<>> THEN FALSE
    ELSE IF a = <<>> THEN TRUE
    ELSE IF Head(a) = Head(b) THEN StrLess(Tail(a), Tail(b))
    ELSE Ord(Head(a)) < Ord(Head(b))

\* the strings of a finite set in ascending order
RECURSIVE SortStrings(_)
SortStrings(S) ==
    IF S = {} THEN <<>>
    ELSE LET least == CHOOSE x \in S : \A y \in S \ {x} : StrLess(x, y)
         IN  <<least>> \o SortStrings(S \ {least})

StartsWith(s, prefix) ==
    Len(s) >= Len(prefix) /\ SubSeq(s, 1, Len(prefix)) = prefix

\* characters str.strip() and str.split() take for whitespace (of those the
\* model's strings are made of)
Whitespace == {" ", "\t", "\n", "\r"}

\* str.strip()
RECURSIVE Strip(_)
Strip(s) ==
    IF s = <<>> THEN s
    ELSE IF Head(s) \in Whitespace THEN Strip(Tail(s))
    ELSE IF s[Len(s)] \in Whitespace THEN Strip(SubSeq(s, 1, Len(s) - 1))
    ELSE s

Digits == <<"0", "1", "2", "3", "4", "5", "6", "7", "8", "9">>
IsDigit(ch) == \E i \in 1..10 : Digits[i] = ch
DigitValue(ch) == (CHOOSE i \in 1..10 : Digits[i] = ch) - 1

RECURSIVE Pow10(_)
Pow10(k) == IF k = 0 THEN 1 ELSE 10 * Pow10(k - 1)

\* the integer written by a string of digits
RECURSIVE DigitsValue(_)
DigitsValue(s) ==
    IF s = <<>> THEN 0
    ELSE 10 * DigitsValue(SubSeq(s, 1, Len(s) - 1)) + DigitValue(s[Len(s)])

\* the number written by an unsigned decimal string, NaN for any other text
ParseUnsigned(s) ==
    LET dot  == FirstIndex(s, ".")
        int  == IF dot = 0 THEN s ELSE SubSeq(s, 1, dot - 1)
        frac == IF dot = 0 THEN <<>> ELSE SubSeq(s, dot + 1, Len(s))
    IN  IF /\ int \o frac # <<>>
           /\ \A i \in 1..Len(int) : IsDigit(int[i])
           /\ \A i \in 1..Len(frac) : IsDigit(frac[i])
        THEN Norm(DigitsValue(int \o frac), Pow10(Len(frac)))
        ELSE NA

ParseDecimal(s) ==
    IF s # <<>> /\ Head(s) = "-"
    THEN LET m == ParseUnsigned(Tail(s))
         IN  IF IsNA(m) THEN NA ELSE Norm(-m.v[1], m.v[2])
    ELSE ParseUnsigned(s)

\* pd.to_numeric(cell, errors='coerce')
to_numeric(c) ==
    IF IsStr(c) THEN ParseDecimal(c.v) ELSE c

\* round half to even to an integer, of n/d with d > 0
RoundHalfEven(n, d) ==
    LET q == n \div d
        r == n % d
    IN  IF 2 * r < d THEN q
        ELSE IF 2 * r > d THEN q + 1
        ELSE IF q % 2 = 0 THEN q ELSE q + 1

\* Series.round(2) on one cell (ties go to the even hundredth)
Round2(c) ==
    IF IsNum(c) THEN Norm(RoundHalfEven(100 * c.v[1], c.v[2]), 100) ELSE c

\* the number of values present in a column
RECURSIVE SeriesCount(_)
SeriesCount(s) ==
    IF s = <<>> THEN 0
    ELSE (IF IsNA(Head(s)) THEN 0 ELSE 1) + SeriesCount(Tail(s))

\* Series.mean(): missing values are skipped, NaN when none is left
SeriesMean(s) ==
    IF SeriesCount(s) = 0 THEN NA
    ELSE NumDiv(SeriesSum(s), Num(SeriesCount(s), 1))

----------------------------------------------------------------------------
(* Panel Filter & Grouper: the "Process data" section *)

NoFrame == [kind |-> "none", hasCov |-> FALSE, rows |-> <<>>]

\* Series.isin(panel_genes) on one cell
IsIn(c, panel_genes) ==
    IsStr(c) /\ \E i \in 1..Len(panel_genes) : panel_genes[i] = c.v

\* every row kept, in the panel or not
NoPanelFilter(rows, panel_genes) == rows

\* df[df['Gene_Name'].isin(panel_genes) | df['Ref Name'].isin(panel_genes)]
PanelFilter(rows, panel_genes) ==
    RowsAt(rows,
           {i \in 1..Len(rows) :
               IsIn(rows[i].Gene_Name, panel_genes) \/ IsIn(rows[i].RefName, panel_genes)},
           1)

\* 'Ref Name' filled with 'Gene_Name': the two columns the other way round
GeneIdRefNameFirst(row) == FillNa(row.RefName, row.Gene_Name)

\* df_filtered['Gene_ID'] = df_filtered['Gene_Name'].fillna(df_filtered['Ref Name'])
GeneId(row) == FillNa(row.Gene_Name, row.RefName)

Intron == <<"I", "n", "t", "r", "o", "n", ":">>

\* df_filtered['Gene_ID'].fillna('').str.startswith("Intron:")
IsIntron(gene_id) == StartsWith(FillNa(gene_id, Str(<<>>)).v, Intron)

\* lines 444-446: the kept rows as (Gene_ID, Perc_1x) pairs
Resolved(rows) ==
    LET ids == [i \in 1..Len(rows) |-> GeneId(rows[i])]
        kept == RowsAt(rows, {i \in 1..Len(rows) : ~IsIntron(ids[i])}, 1)
    IN  [i \in 1..Len(kept) |->
            [Gene_ID |-> GeneId(kept[i]), Perc_1x |-> to_numeric(kept[i].Pct1x)]]

\* groupby('Gene_ID', as_index=False)['Perc_1x'].mean(), rounded and sorted:
\* one row per Gene_ID present (rows without a Gene_ID belong to no group)
GroupMean(resolved) ==
    LET ids == SortStrings({resolved[i].Gene_ID.v :
                              i \in {j \in 1..Len(resolved) : IsStr(resolved[j].Gene_ID)}})
    IN  [k \in 1..Len(ids) |->
            [Gene_ID |-> Str(ids[k]),
             Perc_1x |-> Round2(SeriesMean(Column(
                 RowsAt(resolved,
                        {i \in 1..Len(resolved) : resolved[i].Gene_ID = Str(ids[k])}, 1),
                 "Perc_1x")))]]

\* df_grouped of lines 443-450; its columns are 'Gene_ID' and 'Perc_1x', so
\* none of '% 1x', '%1x', '% 1x ' is among them
Grouped(df, panel_genes) ==
    [kind |-> "grouped", hasCov |-> FALSE,
     rows |-> GroupMean(Resolved(PanelFilter(df.rows, panel_genes)))]

\* lines 438-450 on the table df: the st.error shown ("" when none) and the
\* grouped table
ProcessData(df, panel_genes) ==
    IF ~df.hasCov
    THEN [error |-> "Coverage column not found", df_grouped |-> NoFrame]
    ELSE [error |-> "", df_grouped |-> Grouped(df, panel_genes)]

LowThreshold == 90

\* row['Perc_1x'] < 90 (lines 460 and 547)
BelowThreshold(perc) == NumLess(perc, Num(LowThreshold, 1))

\* the "Low Coverage" metric: len(df_grouped[df_grouped['Perc_1x'] < 90])
LowCoverageMetric(df_grouped) ==
    Cardinality({i \in 1..Len(df_grouped.rows) : BelowThreshold(df_grouped.rows[i].Perc_1x)})

\* the "View Genes" preview: per row, the gene and whether it is shown red
Preview(df_grouped) ==
    [i \in 1..Len(df_grouped.rows) |->
        [gene |-> df_grouped.rows[i].Gene_ID, low |-> BelowThreshold(df_grouped.rows[i].Perc_1x)]]

----------------------------------------------------------------------------
(* Auxiliary (mitochondrial) source: ingestion and merge *)

\* an empty file uploader returns None
NoMitoFile ==
    [name |-> <<>>, bytes |-> [readable |-> FALSE, hasCov |-> FALSE, hasName |-> FALSE,
                               rows |-> <<>>]]

NanText == <<"n", "a", "n">>

\* astype(str) on one cell
AsText(c) == IF IsStr(c) THEN c.v ELSE NanText

\* mito_df['Name'].astype(str).str.split('/').str[0].str.strip()
MitoGeneId(name) == Str(Strip(BeforeFirst(AsText(name), "/")))

\* lines 363-383: Gene_ID and '% 1x' per row, rows without a numeric
\* coverage dropped, coverage rounded, rows with an empty Gene_ID dropped
MitoRows(rows) ==
    LET conv == [i \in 1..Len(rows) |->
                    [Gene_ID |-> MitoGeneId(rows[i].Name),
                     Pct1x |-> to_numeric(rows[i].Pct1x)]]
        numeric == RowsAt(conv, {i \in 1..Len(conv) : ~IsNA(conv[i].Pct1x)}, 1)
        rounded == [i \in 1..Len(numeric) |->
                    [numeric[i] EXCEPT !.Pct1x = Round2(numeric[i].Pct1x)]]
    IN  RowsAt(rounded, {i \in 1..Len(rounded) : Strip(rounded[i].Gene_ID.v) # <<>>}, 1)

\* the value stored in st.session_state.mito_data for an uploaded file
\* (lines 334-395): None after any error, the cleaned table otherwise
MitoData(mito_file) ==
    IF ~mito_file.bytes.readable \/ ~mito_file.bytes.hasCov \/ ~mito_file.bytes.hasName
    THEN NoFrame
    ELSE [kind |-> "mito", hasCov |-> TRUE, rows |-> MitoRows(mito_file.bytes.rows)]

\* the st.error shown while loading the file, "" when it loads
MitoError(mito_file) ==
    IF ~mito_file.bytes.readable THEN "Error loading mitochondrial file"
    ELSE IF ~mito_file.bytes.hasCov THEN "No coverage column found in mitochondrial file"
    ELSE IF ~mito_file.bytes.hasName THEN "No 'Name' column found in mitochondrial file"
    ELSE ""

\* df.rename(columns={'Perc_1x': '% 1x'})
RenamePerc(rows) ==
    [i \in 1..Len(rows) |-> [Gene_ID |-> rows[i].Gene_ID, Pct1x |-> rows[i].Perc_1x]]

\* df.sort_values('Gene_ID'): insertion of each row after the rows not
\* greater than it
RECURSIVE SortByGeneId(_)
SortByGeneId(rows) ==
    IF rows = <<>> THEN <<>>
    ELSE LET init == SortByGeneId(SubSeq(rows, 1, Len(rows) - 1))
             last == rows[Len(rows)]
             n == Cardinality({i \in 1..Len(init) : ~StrLess(last.Gene_ID.v, init[i].Gene_ID.v)})
         IN  SubSeq(init, 1, n) \o <<last>> \o SubSeq(init, n + 1, Len(init))

\* no row dropped: the concatenation as it is
KeepEveryRow(rows) == rows

\* keep='last' in place of keep='first'
LastPerGeneId(rows) ==
    RowsAt(rows,
           {i \in 1..Len(rows) : \A j \in (i + 1)..Len(rows) : rows[j].Gene_ID # rows[i].Gene_ID},
           1)

\* df.drop_duplicates(subset='Gene_ID', keep='first')
FirstPerGeneId(rows) ==
    RowsAt(rows,
           {i \in 1..Len(rows) : \A j \in 1..(i - 1) : rows[j].Gene_ID # rows[i].Gene_ID},
           1)

\* df_final of lines 474-505
FinalTable(df_grouped, mito_data) ==
    IF mito_data # NoFrame
    THEN [kind |-> "final", hasCov |-> TRUE,
          rows |-> FirstPerGeneId(SortByGeneId(RenamePerc(df_grouped.rows)) \o mito_data.rows)]
    ELSE [kind |-> "final", hasCov |-> TRUE, rows |-> RenamePerc(df_grouped.rows)]

----------------------------------------------------------------------------
(* Report Data Builder: create_word_document_with_mito *)

ChunkSize == 4

\* slices one row longer than chunk_size
OverlongChunks(rows) ==
    [c \in 1..((Len(rows) + ChunkSize) \div (ChunkSize + 1)) |->
        SubSeq(rows, (c - 1) * (ChunkSize + 1) + 1,
               IF c * (ChunkSize + 1) < Len(rows) THEN c * (ChunkSize + 1) ELSE Len(rows))]

\* chunks = [df_data[i:i+chunk_size] for i in range(0, len(df_data), chunk_size)]
Chunks(rows) ==
    [c \in 1..((Len(rows) + ChunkSize - 1) \div ChunkSize) |->
        SubSeq(rows, (c - 1) * ChunkSize + 1,
               IF c * ChunkSize < Len(rows) THEN c * ChunkSize ELSE Len(rows))]

\* float(percent_value) if pd.notna(percent_value) else 0.0
DocPercent(c) == IF IsNA(c) THEN Num(0, 1) ELSE c

\* the gene / percentage cell pair written for one row; red when percent < 90
GeneCell(row) ==
    [kind |-> "gene", gene |-> AsText(row.Gene_ID), percent |-> DocPercent(row.Pct1x),
     red |-> NumLess(DocPercent(row.Pct1x), Num(LowThreshold, 1))]

\* the white dash pair that pads a short chunk
EmptyCell == [kind |-> "empty", gene |-> <<"-">>, percent |-> NA, red |-> FALSE]

\* the data rows added to the table, one per chunk
create_word_document_with_mito(df_data) ==
    LET chunks == Chunks(df_data.rows)
    IN  [c \in 1..Len(chunks) |->
            [i \in 1..ChunkSize |->
                IF i <= Len(chunks[c]) THEN GeneCell(chunks[c][i]) ELSE EmptyCell]]

----------------------------------------------------------------------------
(* Gene List Parser *)

Separators == {"\n", ",", "\t"}

\* text.replace('\n', ' ').replace(',', ' ').replace('\t', ' ')
ReplaceSeparators(text) ==
    [i \in 1..Len(text) |-> IF text[i] \in Separators THEN " " ELSE text[i]]

\* text.split(): the maximal runs of characters that are not whitespace
RECURSIVE SplitTokens(_, _)
SplitTokens(text, token) ==
    IF text = <<>> THEN (IF token = <<>> THEN <<>> ELSE <<token>>)
    ELSE IF Head(text) \in Whitespace
    THEN (IF token = <<>> THEN <<>> ELSE <<token>>) \o SplitTokens(Tail(text), <<>>)
    ELSE SplitTokens(Tail(text), Append(token, Head(text)))

\* [gene.strip() for gene in text.split() if gene.strip()]
StrippedTokens(text) ==
    LET stripped == [i \in 1..Len(SplitTokens(text, <<>>)) |-> Strip(SplitTokens(text, <<>>)[i])]
    IN  RowsAt(stripped, {i \in 1..Len(stripped) : stripped[i] # <<>>}, 1)

\* the loop of lines 69-74 with every gene appended, seen or not
AllGenes(genes, seen) == genes

\* the loop of lines 69-74: a gene is appended unless it is in seen
RECURSIVE UniqueGenes(_, _)
UniqueGenes(genes, seen) ==
    IF genes = <<>> THEN <<>>
    ELSE IF Head(genes) \in seen THEN UniqueGenes(Tail(genes), seen)
    ELSE <<Head(genes)>> \o UniqueGenes(Tail(genes), seen \cup {Head(genes)})

\* Parse gene list with support for newlines, commas, and spaces. Remove
\* duplicates.
parse_gene_list(text) ==
    IF Strip(text) = <<>> THEN <<>>
    ELSE UniqueGenes(StrippedTokens(ReplaceSeparators(text)), {})

----------------------------------------------------------------------------
(* The script: one run from top to bottom per user interaction *)

NoRawFile ==
    [name |-> <<>>, size |-> 0,
     bytes |-> [readable |-> FALSE, hasGeneName |-> FALSE, rows |-> <<>>]]

NoCsvFile == [name |-> <<>>, frame |-> NoFrame]

Uploaded(file) == file.name # <<>>

NoCsvText == [written |-> FALSE, header |-> FALSE, lines |-> <<>>]

\* DataFrame.to_csv(index=False): the header line, if the frame has columns,
\* and one line per row
to_csv(df) == [written |-> TRUE, header |-> df.hasCov, lines |-> df.rows]

NoDoc == [saved |-> FALSE, table |-> <<>>]

\* lines 31-44
InitialSession ==
    [coverage_data |-> NoFrame,
     panel_genes |-> <<>>,
     filtered_data |-> NoFrame,
     processed_csv |-> NoCsvText,
     file_basename |-> <<"o", "u", "t", "p", "u", "t">>,
     last_processed_file |-> <<>>,
     mito_data |-> NoFrame,
     doc_bytes |-> NoDoc,
     word_filename |-> <<>>]

\* file_id = f"{raw_excel.name}_{raw_excel.size}"
FileId(file) == <<file.name, file.size>>

\* lines 271-306: the raw Excel uploader
RawUploadStep(w, ss) ==
    IF Uploaded(w.raw_excel) /\ ss.last_processed_file # FileId(w.raw_excel)
    THEN LET r == preprocess_excel_cached(w.raw_excel.bytes, w.raw_excel.name)
         IN  IF r.ok
             THEN [ss |-> [ss EXCEPT !.coverage_data = r.coverage_df,
                                     !.file_basename = r.base_name,
                                     !.processed_csv = to_csv(r.coverage_df),
                                     !.last_processed_file = FileId(w.raw_excel)],
                   errors |-> {}]
             ELSE [ss |-> ss, errors |-> {r.error}]
    ELSE [ss |-> ss, errors |-> {}]

\* lines 308-397: the coverage CSV uploader and the mitochondrial uploader
CsvUploadStep(w, ss) ==
    LET named == IF Uploaded(w.coverage_file)
                 THEN [ss EXCEPT !.file_basename = SplitExtBase(w.coverage_file.name)]
                 ELSE ss
        loaded == IF Uploaded(w.coverage_file) /\ w.coverage_file.frame.hasCov
                  THEN [named EXCEPT !.coverage_data = w.coverage_file.frame]
                  ELSE named
        merged == [loaded EXCEPT !.mito_data = IF Uploaded(w.mito_file)
                                               THEN MitoData(w.mito_file)
                                               ELSE NoFrame]
    IN  [ss |-> merged,
         errors |->
            (IF Uploaded(w.coverage_file) /\ ~w.coverage_file.frame.hasCov
             THEN {"No coverage column found"} ELSE {})
            \cup (IF Uploaded(w.mito_file) /\ MitoError(w.mito_file) # ""
                  THEN {MitoError(w.mito_file)} ELSE {})]

UploadStep(w, ss) ==
    IF w.input_type = "raw" THEN RawUploadStep(w, ss) ELSE CsvUploadStep(w, ss)

\* lines 421-431: the "Load Genes" button
LoadGenesStep(ss, gene_text) ==
    IF parse_gene_list(gene_text) # <<>>
    THEN [ss EXCEPT !.panel_genes = parse_gene_list(gene_text)]
    ELSE ss

ReportSuffix == <<"_", "r", "e", "p", "o", "r", "t", ".", "d", "o", "c", "x">>

\* lines 470-521: the "Generate Word" button
GenerateStep(ss, df_grouped) ==
    [ss EXCEPT !.doc_bytes =
                   [saved |-> TRUE,
                    table |-> create_word_document_with_mito(
                                  FinalTable(df_grouped, ss.mito_data))],
               !.word_filename = ss.file_basename \o ReportSuffix]

\* whether the script reaches the section below line 443
Processes(ss) ==
    /\ ss.coverage_data # NoFrame
    /\ ss.panel_genes # <<>>
    /\ ss.coverage_data.hasCov

\* lines 434-553: "Process data", with the button clicked or not
ProcessStep(ss, generate) ==
    IF ss.coverage_data # NoFrame /\ ss.panel_genes # <<>>
    THEN IF ~ss.coverage_data.hasCov
         THEN [ss |-> ss, errors |-> {"Coverage column not found"}]
         ELSE LET df_grouped == Grouped(ss.coverage_data, ss.panel_genes)
                  filtered == [ss EXCEPT !.filtered_data = df_grouped]
              IN  [ss |-> IF generate THEN GenerateStep(filtered, df_grouped) ELSE filtered,
                   errors |-> {}]
    ELSE [ss |-> ss, errors |-> {}]

\* one run of the script with the widgets as w: load is the pasted text when
\* "Load Genes" was clicked (and <<>> otherwise), generate tells whether
\* "Generate Word" was; the run shows its errors, whether it reached the
\* "Generate Word" and download buttons, and whether it built a document
Rerun(w, load, generate) ==
    \E up \in {UploadStep(w, session_state)} :
    \E panel \in {LoadGenesStep(up.ss, load)} :
    \E done \in {ProcessStep(panel, generate)} :
        /\ ui' = w
        /\ session_state' = done.ss
        /\ run' = [errors |-> up.errors \cup done.errors,
                   generate_shown |-> Processes(done.ss),
                   generated |-> generate /\ Processes(done.ss)]
        /\ UNCHANGED <<aggVars, pipeVars, parseVars, docVars>>

\* the radio button; the uploaders of the branch left are not rendered and
\* lose their files
SelectInputType(t) ==
    /\ t # ui.input_type
    /\ Rerun([input_type |-> t, raw_excel |-> NoRawFile, coverage_file |-> NoCsvFile,
              mito_file |-> NoMitoFile], <<>>, FALSE)

UploadRawExcel(file) ==
    /\ ui.input_type = "raw"
    /\ file # ui.raw_excel
    /\ Rerun([ui EXCEPT !.raw_excel = file], <<>>, FALSE)

UploadCoverageCsv(file) ==
    /\ ui.input_type = "csv"
    /\ file # ui.coverage_file
    /\ Rerun([ui EXCEPT !.coverage_file = file], <<>>, FALSE)

UploadMitoFile(file) ==
    /\ ui.input_type = "csv"
    /\ file # ui.mito_file
    /\ Rerun([ui EXCEPT !.mito_file = file], <<>>, FALSE)

LoadGenes(gene_text) ==
    /\ gene_text # <<>>
    /\ Rerun(ui, gene_text, FALSE)

GenerateWord ==
    /\ run.generate_shown
    /\ Rerun(ui, <<>>, TRUE)

AppInit ==
    /\ ui = [input_type |-> "csv", raw_excel |-> NoRawFile, coverage_file |-> NoCsvFile,
             mito_file |-> NoMitoFile]
    /\ session_state = InitialSession
    /\ run = [errors |-> {}, generate_shown |-> FALSE, generated |-> FALSE]

----------------------------------------------------------------------------
(* Raw workbooks for the aggregator: every table of at most MaxRawRows     *)
(* region records, plus a workbook without the 'Gene Name' column and one  *)
(* that read_excel cannot read.                                            *)

MaxRawRows == 3

G_  == <<"G">>
A1_ == <<"A", "1">>
X_  == <<"X">>

\* the name cells of a region record: one read by its 'Gene Names', one by
\* its 'Aliases', one by its 'Name'
RawKeyKinds ==
    { [GeneNames |-> Str(G_), Aliases |-> Str(A1_), GeneName |-> Str(<<"X", ",", "Y">>),
       Name |-> Str(<<"r", "1">>), GeneIDs |-> Str(<<"1">>)],
      [GeneNames |-> NA, Aliases |-> Str(A1_), GeneName |-> Str(X_),
       Name |-> Str(<<"r", "2">>), GeneIDs |-> NA],
      [GeneNames |-> NA, Aliases |-> NA, GeneName |-> Str(<<"X", ";", "Z">>),
       Name |-> Str(X_), GeneIDs |-> Str(<<"2">>)] }

\* the numeric cells of a region record; a blank cell is read as NaN
RawNumKinds ==
    { [CountedBases |-> Num(0, 1), MeanDepth |-> Num(2, 1), MinDepth |-> Num(1, 1),
       MaxDepth |-> Num(3, 1), Pct1x |-> Num(80, 1)],
      [CountedBases |-> Num(3, 1), MeanDepth |-> Num(4, 1), MinDepth |-> Num(2, 1),
       MaxDepth |-> Num(7, 1), Pct1x |-> Num(100, 1)],
      [CountedBases |-> Num(1, 1), MeanDepth |-> NA, MinDepth |-> NA,
       MaxDepth |-> NA, Pct1x |-> Num(80, 1)] }

RawRows ==
    { [GeneNames |-> k.GeneNames, Aliases |-> k.Aliases, GeneName |-> k.GeneName,
       Gene_Name |-> NA, Name |-> k.Name, GeneIDs |-> k.GeneIDs,
       CountedBases |-> n.CountedBases, MeanDepth |-> n.MeanDepth,
       MinDepth |-> n.MinDepth, MaxDepth |-> n.MaxDepth, Pct1x |-> n.Pct1x]
      : k \in RawKeyKinds, n \in RawNumKinds }

SeqsUpTo(S, n) == UNION { [1..k -> S] : k \in 0..n }

RawName == <<"a", ".", "x", "l", "s", "x">>

\* the bytes of a workbook: whether read_excel can read them, whether the
\* sheet has the 'Gene Name' column, and the sheet's rows
RawWorkbook(rows) == [readable |-> TRUE, hasGeneName |-> TRUE, rows |-> rows]

MaxCsvRows == 2
MaxMitoRows == 2

A_ == <<"A">>
B_ == <<"B">>
C_ == <<"C">>
Intron1 == Intron \o <<"1">>

\* rows of a pre-aggregated coverage CSV; an empty cell is read as NaN
CsvRows ==
    { [Gene_Name |-> Str(A_), RefName |-> NA, Pct1x |-> Num(90, 1)],
      [Gene_Name |-> Str(A_), RefName |-> NA, Pct1x |-> Num(8999, 100)],
      [Gene_Name |-> Str(A_), RefName |-> NA, Pct1x |-> Str(<<"n", "/", "a">>)],
      [Gene_Name |-> NA, RefName |-> Str(B_), Pct1x |-> Str(<<"n", "/", "a">>)],
      [Gene_Name |-> NA, RefName |-> Str(B_), Pct1x |-> Str(<<"8", "9", ".", "9", "9">>)],
      [Gene_Name |-> Str(Intron1), RefName |-> Str(A_), Pct1x |-> Num(90, 1)],
      [Gene_Name |-> Str(C_), RefName |-> Str(B_), Pct1x |-> Num(90, 1)] }

CsvFrames ==
    { [kind |-> "csv", hasCov |-> TRUE, rows |-> rows] : rows \in SeqsUpTo(CsvRows, MaxCsvRows) }

Panels == { <<A_, B_>>, <<B_>> }

\* rows of an auxiliary workbook
MitoSheetRows ==
    { [Name |-> Str(<<"A", "/", "1">>), Pct1x |-> Num(10, 1)],
      [Name |-> Str(<<"A", " ", "/", "2">>), Pct1x |-> Str(<<"9", "5", ".", "5", "5", "5">>)],
      [Name |-> Str(Intron1 \o <<"/", "2">>), Pct1x |-> Num(50, 1)],
      [Name |-> Str(<<" ", "/", "3">>), Pct1x |-> Num(100, 1)],
      [Name |-> Str(C_), Pct1x |-> Str(<<"n", "/", "a">>)] }

MitoName == <<"m", ".", "x", "l", "s", "x">>

MitoWorkbook(rows) ==
    [name |-> MitoName,
     bytes |-> [readable |-> TRUE, hasCov |-> TRUE, hasName |-> TRUE, rows |-> rows]]

MitoFiles ==
    { MitoWorkbook(rows) : rows \in SeqsUpTo(MitoSheetRows, MaxMitoRows) }
    \cup { NoMitoFile,
           [MitoWorkbook(<<>>) EXCEPT !.bytes.readable = FALSE],
           [MitoWorkbook(<<>>) EXCEPT !.bytes.hasCov = FALSE],
           [MitoWorkbook(<<>>) EXCEPT !.bytes.hasName = FALSE] }

NotRun ==
    [stage |-> "start", mito_data |-> NoFrame, df_grouped |-> NoFrame, low_coverage |-> 0,
     preview |-> <<>>, df_final |-> NoFrame, doc |-> <<>>,
     again |-> [error |-> "", df_grouped |-> NoFrame]]

AggInputs ==
    { RawWorkbook(rows) : rows \in SeqsUpTo(RawRows, MaxRawRows) }
    \cup { [RawWorkbook(<<>>) EXCEPT !.hasGeneName = FALSE],
           [RawWorkbook(<<>>) EXCEPT !.readable = FALSE] }

NotCalled == [ok |-> FALSE, error |-> "not called"]

AggIdle ==
    /\ rawTable = RawWorkbook(<<>>)
    /\ aggResult = NotCalled

PipeIdle ==
    /\ pipeIn = [df |-> NoFrame, panel_genes |-> <<>>, mito_file |-> NoMitoFile]
    /\ pipeOut = NotRun

NotParsed == [called |-> FALSE, genes |-> <<>>]

ParseIdle ==
    /\ parseIn = <<>>
    /\ parseOut = NotParsed

NotBuilt == [called |-> FALSE, rows |-> <<>>]

DocIdle ==
    /\ docIn = NoFrame
    /\ docOut = NotBuilt

AggInit ==
    /\ rawTable \in AggInputs
    /\ aggResult = NotCalled
    /\ PipeIdle
    /\ AppInit
    /\ ParseIdle
    /\ DocIdle

\* one call of preprocess_excel_cached on the workbook
Preprocess ==
    /\ aggResult = NotCalled
    /\ aggResult' = preprocess_excel_cached(rawTable, RawName)
    /\ UNCHANGED <<rawTable, pipeVars, appVars, parseVars, docVars>>

AggNext == Preprocess

SpecAgg == AggInit /\ [][AggNext]_vars

----------------------------------------------------------------------------
(* The filter, the merge and the builder applied to every small coverage   *)
(* table, panel and auxiliary file.                                        *)

PipeInit ==
    /\ pipeIn \in [df : CsvFrames, panel_genes : Panels, mito_file : MitoFiles]
    /\ pipeOut = NotRun
    /\ AggIdle
    /\ AppInit
    /\ ParseIdle
    /\ DocIdle

\* the upload section and the "Process data" section of one script run
PipeProcess ==
    /\ pipeOut.stage = "start"
    /\ LET df_grouped == Grouped(pipeIn.df, pipeIn.panel_genes)
       IN  pipeOut' = [pipeOut EXCEPT
               !.stage = "grouped",
               !.mito_data = IF pipeIn.mito_file = NoMitoFile THEN NoFrame
                             ELSE MitoData(pipeIn.mito_file),
               !.df_grouped = df_grouped,
               !.low_coverage = LowCoverageMetric(df_grouped),
               !.preview = Preview(df_grouped)]
    /\ UNCHANGED <<pipeIn, aggVars, appVars, parseVars, docVars>>

\* the "Generate Word" button
PipeGenerate ==
    /\ pipeOut.stage = "grouped"
    /\ LET df_final == FinalTable(pipeOut.df_grouped, pipeOut.mito_data)
       IN  pipeOut' = [pipeOut EXCEPT
               !.stage = "word",
               !.df_final = df_final,
               !.doc = create_word_document_with_mito(df_final)]
    /\ UNCHANGED <<pipeIn, aggVars, appVars, parseVars, docVars>>

\* a grouped table written as a coverage table: its identifier under
\* 'Gene_Name', no 'Ref Name', its coverage under '% 1x'
AsCoverageTable(df_grouped) ==
    [kind |-> "csv", hasCov |-> TRUE,
     rows |-> [i \in 1..Len(df_grouped.rows) |->
                 [Gene_Name |-> df_grouped.rows[i].Gene_ID, RefName |-> NA,
                  Pct1x |-> df_grouped.rows[i].Perc_1x]]]

\* the "Process data" section run on its own output with the same panel, the
\* output taken as it is or written as a coverage table
PipeReprocess ==
    /\ pipeOut.stage = "grouped"
    /\ \E df \in {pipeOut.df_grouped, AsCoverageTable(pipeOut.df_grouped)} :
          pipeOut' = [pipeOut EXCEPT
              !.stage = "regrouped",
              !.again = ProcessData(df, pipeIn.panel_genes)]
    /\ UNCHANGED <<pipeIn, aggVars, appVars, parseVars, docVars>>

PipeNext == PipeProcess \/ PipeGenerate \/ PipeReprocess

SpecPipe == PipeInit /\ [][PipeNext]_vars

----------------------------------------------------------------------------
(* parse_gene_list applied to every short text over a small alphabet       *)

MaxTextLen == 5

TextCharacters == {"X", "A", " ", ",", "\n", "\t", "\r"}

ParseInit ==
    /\ parseIn \in SeqsUpTo(TextCharacters, MaxTextLen)
    /\ parseOut = NotParsed
    /\ AggIdle
    /\ PipeIdle
    /\ AppInit
    /\ DocIdle

\* genes = parse_gene_list(gene_text)
Parse ==
    /\ ~parseOut.called
    /\ parseOut' = [called |-> TRUE, genes |-> parse_gene_list(parseIn)]
    /\ UNCHANGED <<parseIn, aggVars, pipeVars, appVars, docVars>>

ParseNext == Parse

SpecParse == ParseInit /\ [][ParseNext]_vars

----------------------------------------------------------------------------
(* create_word_document_with_mito applied to final tables of every length  *)
(* up to MaxDocRows, a gene per row, its coverage missing or 90            *)

MaxDocRows == 9

DocTables ==
    { [kind |-> "final", hasCov |-> TRUE,
       rows |-> [k \in 1..n |-> [Gene_ID |-> Str(<<"G", Digits[(k % 10) + 1]>>),
                                 Pct1x |-> IF k \in low THEN NA ELSE Num(LowThreshold, 1)]]]
      : n \in 0..MaxDocRows, low \in SUBSET (1..MaxDocRows) }

DocInit ==
    /\ docIn \in DocTables
    /\ docOut = NotBuilt
    /\ AggIdle
    /\ PipeIdle
    /\ AppInit
    /\ ParseIdle

\* doc = create_word_document_with_mito(df_final, word_filename)
BuildDocument ==
    /\ ~docOut.called
    /\ docOut' = [called |-> TRUE, rows |-> create_word_document_with_mito(docIn)]
    /\ UNCHANGED <<docIn, aggVars, pipeVars, appVars, parseVars>>

DocNext == BuildDocument

SpecDoc == DocInit /\ [][DocNext]_vars

----------------------------------------------------------------------------
(* Claims about the aggregator *)

aggData == WithGeneName(rawTable.rows)
aggKeys == EmittedKeys(aggData)
aggRows == aggResult.coverage_df.rows

\* C1: no region record is in the record set of two different emitted
\* summaries, and the summaries' Counted Bases totals together do not exceed
\* the table's total (no record is counted twice).
C1_NoRecordCountedTwice ==
    aggResult.ok =>
        /\ \A i, j \in 1..Len(aggKeys) :
              i # j => GeneDataIdx(aggData, aggKeys[i]) \cap GeneDataIdx(aggData, aggKeys[j]) = {}
        /\ NumLeq(SeriesSum(Column(aggRows, "CountedBases")),
                  SeriesSum(Column(rawTable.rows, "CountedBases")))

\* x lies within [min, max] of the column's values (of those present; the
\* interval of a column without any value is not defined and is not judged)
InRange(x, col) ==
    IsNum(SeriesMin(col)) => NumLeq(SeriesMin(col), x) /\ NumLeq(x, SeriesMax(col))

\* C2: every emitted summary's weighted mean depth lies within [min, max] of
\* the Mean Depth values of the records selected for its key, and its
\* weighted mean % 1x within [min, max] of their % 1x values.
C2_WeightedMeansWithinRange ==
    aggResult.ok =>
        \A k \in 1..Len(aggRows) :
            LET gene_data == GeneData(aggData, aggKeys[k])
            IN  /\ InRange(aggRows[k].MeanDepth, Column(gene_data, "MeanDepth"))
                /\ InRange(aggRows[k].Pct1x, Column(gene_data, "Pct1x"))

Permuted(rows, p) == [i \in 1..Len(rows) |-> rows[p[i]]]
Range(s) == { s[i] : i \in 1..Len(s) }

RowOrders == { Permuted(rawTable.rows, p) : p \in Permutations(1..Len(rawTable.rows)) }

\* C3 as stated: for every permutation of the rows the aggregator yields the
\* same set of summaries, all fields included (Name and Gene IDs too).
C3_OrderInvariantAllFields ==
    aggResult.ok =>
        \A rows \in RowOrders :
            Range(preprocess_excel_cached(RawWorkbook(rows), RawName).coverage_df.rows)
                = Range(aggRows)

\* a summary without its carried-through Name and Gene IDs
Aggregates(s) ==
    [RefName |-> s.RefName, Aliases |-> s.Aliases, Gene_Name |-> s.Gene_Name,
     CountedBases |-> s.CountedBases, MeanDepth |-> s.MeanDepth,
     MinDepth |-> s.MinDepth, MaxDepth |-> s.MaxDepth, Pct1x |-> s.Pct1x]

\* C3 amended: for every permutation of the rows the aggregator yields the
\* same set of summaries as far as the key fields and the aggregated
\* statistics go; Name and Gene IDs are those of the first selected row.
C3_OrderInvariantAggregates ==
    aggResult.ok =>
        \A rows \in RowOrders :
            { Aggregates(s) :
                s \in Range(preprocess_excel_cached(RawWorkbook(rows), RawName).coverage_df.rows) }
                = { Aggregates(s) : s \in Range(aggRows) }

\* a summary over two or more distinct records was emitted
C3_Witness ==
    /\ aggResult.ok
    /\ \E k \in 1..Len(aggKeys) :
          LET gene_data == GeneData(aggData, aggKeys[k])
          IN  /\ Len(gene_data) >= 2
              /\ gene_data[1] # gene_data[2]
              /\ gene_data[1].MinDepth # gene_data[2].MinDepth

----------------------------------------------------------------------------
(* Claims about the per-gene tables *)

GeneIds(df) == { df.rows[i].Gene_ID : i \in 1..Len(df.rows) }
RowsOf(df, gene_id) == { i \in 1..Len(df.rows) : df.rows[i].Gene_ID = gene_id }

\* C4: no Gene_ID of the grouped table or of the final table handed to the
\* document builder begins with "Intron:".
C4_NoIntronGeneId ==
    \A df \in {pipeOut.df_grouped, pipeOut.df_final} :
        \A id \in GeneIds(df) : ~StartsWith(AsText(id), Intron)

\* C5: in the grouped table and in the final table, Gene_ID is never empty
\* (nor missing) and no two rows share a Gene_ID.
C5_GeneIdPresentAndUnique ==
    \A df \in {pipeOut.df_grouped, pipeOut.df_final} :
        /\ \A id \in GeneIds(df) : IsStr(id) /\ id.v # <<>>
        /\ \A i, j \in 1..Len(df.rows) :
              df.rows[i].Gene_ID = df.rows[j].Gene_ID => i = j

\* a final table was built from a panel table and an auxiliary table that
\* share an identifier, the auxiliary sheet holding a row without identifier
C5_Witness ==
    /\ pipeOut.stage = "word"
    /\ GeneIds(pipeOut.df_grouped) \cap GeneIds(pipeOut.mito_data) # {}
    /\ Len(pipeOut.df_final.rows) >= 2
    /\ \E i \in 1..Len(pipeIn.mito_file.bytes.rows) :
          MitoGeneId(pipeIn.mito_file.bytes.rows[i].Name) = Str(<<>>)

Hundred == Num(100, 1)
Zero == Num(0, 1)

\* C6: every row of the grouped table has a coverage value that is a number
\* in [0,100].
C6_CoverageFiniteInRange ==
    \A i \in 1..Len(pipeOut.df_grouped.rows) :
        /\ IsNum(pipeOut.df_grouped.rows[i].Perc_1x)
        /\ NumLeq(Zero, pipeOut.df_grouped.rows[i].Perc_1x)
        /\ NumLeq(pipeOut.df_grouped.rows[i].Perc_1x, Hundred)

\* C7: the final table has exactly one row per identifier of either table;
\* an identifier of the panel table carries the panel table's value, any
\* other carries a value the auxiliary table gives it.
C7_PanelRowWins ==
    pipeOut.stage = "word" =>
        LET grouped == pipeOut.df_grouped
            mito == pipeOut.mito_data
            final == pipeOut.df_final
        IN  /\ GeneIds(final) = GeneIds(grouped) \cup GeneIds(mito)
            /\ \A id \in GeneIds(final) :
                  /\ Cardinality(RowsOf(final, id)) = 1
                  /\ LET value == final.rows[CHOOSE i \in RowsOf(final, id) : TRUE].Pct1x
                     IN  IF id \in GeneIds(grouped)
                         THEN \A i \in RowsOf(grouped, id) : grouped.rows[i].Perc_1x = value
                         ELSE \E i \in RowsOf(mito, id) : mito.rows[i].Pct1x = value

\* both tables hold the same identifier with different values, and each
\* holds an identifier the other lacks
C7_Witness ==
    /\ pipeOut.stage = "word"
    /\ \E i \in 1..Len(pipeOut.df_grouped.rows), j \in 1..Len(pipeOut.mito_data.rows) :
          /\ pipeOut.df_grouped.rows[i].Gene_ID = pipeOut.mito_data.rows[j].Gene_ID
          /\ pipeOut.df_grouped.rows[i].Perc_1x # pipeOut.mito_data.rows[j].Pct1x
    /\ GeneIds(pipeOut.df_grouped) \ GeneIds(pipeOut.mito_data) # {}
    /\ GeneIds(pipeOut.mito_data) \ GeneIds(pipeOut.df_grouped) # {}

\* the cell pair written for the k-th row of the final table
DocCell(doc, k) == doc[((k - 1) \div ChunkSize) + 1][((k - 1) % ChunkSize) + 1]

\* C10: a gene of the grouped table is counted low, previewed low and
\* highlighted in the document exactly when its coverage is below 90.
C10_SameClassificationEverywhere ==
    pipeOut.stage = "word" =>
        LET grouped == pipeOut.df_grouped.rows
            low == { k \in 1..Len(grouped) : NumLess(grouped[k].Perc_1x, Num(90, 1)) }
        IN  /\ pipeOut.low_coverage = Cardinality(low)
            /\ \A k \in 1..Len(grouped) :
                  /\ pipeOut.preview[k].low = (k \in low)
                  /\ DocCell(pipeOut.doc, k).gene = grouped[k].Gene_ID.v
                  /\ DocCell(pipeOut.doc, k).red = (k \in low)

\* C11: running the "Process data" section on its own output with the same
\* panel shows no error and returns the same rows.
C11_ReprocessReturnsSameRows ==
    pipeOut.stage = "regrouped" =>
        /\ pipeOut.again.error = ""
        /\ pipeOut.again.df_grouped.rows = pipeOut.df_grouped.rows

\* the rows of the coverage table with Gene_Name or Ref Name in the panel
PanelRows ==
    { pipeIn.df.rows[i] : i \in { j \in 1..Len(pipeIn.df.rows) :
        \/ IsIn(pipeIn.df.rows[j].Gene_Name, pipeIn.panel_genes)
        \/ IsIn(pipeIn.df.rows[j].RefName, pipeIn.panel_genes) } }

\* Gene_Name when present and not empty, Ref Name otherwise
NameElseRefName(row) ==
    IF IsStr(row.Gene_Name) /\ row.Gene_Name.v # <<>> THEN row.Gene_Name ELSE row.RefName

C15_GeneIdInPanel ==
    \A id \in GeneIds(pipeOut.df_grouped) : IsIn(id, pipeIn.panel_genes)

\* C15 amended: every Gene_ID of the grouped table is the Gene_ID of a
\* coverage row whose Gene_Name or Ref Name is a member of the panel; it is
\* itself a member unless it is the Gene_Name of a row in the panel by its
\* Ref Name.
C15_GeneIdOfPanelRow ==
    \A id \in GeneIds(pipeOut.df_grouped) :
        /\ \E r \in PanelRows : NameElseRefName(r) = id
        /\ \/ IsIn(id, pipeIn.panel_genes)
           \/ \E r \in PanelRows : r.Gene_Name = id /\ IsIn(r.RefName, pipeIn.panel_genes)

\* the grouped table holds a panel member and an identifier outside the
\* panel, while the coverage table has a row outside the panel that is left out
C15_Witness ==
    /\ pipeOut.stage = "grouped"
    /\ \E id \in GeneIds(pipeOut.df_grouped) : IsIn(id, pipeIn.panel_genes)
    /\ \E id \in GeneIds(pipeOut.df_grouped) : ~IsIn(id, pipeIn.panel_genes)

----------------------------------------------------------------------------
(* The session: uploads, input type switches, panel loads, Generate Word *)

\* a region record of gene X with the given counted bases and % 1x
RegionOfX(counted, pct) ==
    [GeneNames |-> Str(G_), Aliases |-> NA, GeneName |-> Str(X_), Gene_Name |-> NA,
     Name |-> Str(<<"r", "1">>), GeneIDs |-> Str(<<"1">>),
     CountedBases |-> Num(counted, 1), MeanDepth |-> Num(2, 1), MinDepth |-> Num(1, 1),
     MaxDepth |-> Num(3, 1), Pct1x |-> Num(pct, 1)]

RawUpload(size, bytes) == [name |-> RawName, size |-> size, bytes |-> bytes]

\* uploads of a.xlsx, each of another size: two workbooks with one gene, one
\* whose only gene has no counted bases, one without 'Gene Name', one
\* unreadable
RawUploads ==
    { RawUpload(11, RawWorkbook(<<RegionOfX(1, 80)>>)),
      RawUpload(12, RawWorkbook(<<RegionOfX(3, 100), RegionOfX(1, 80)>>)),
      RawUpload(13, RawWorkbook(<<RegionOfX(0, 80)>>)),
      RawUpload(14, [RawWorkbook(<<>>) EXCEPT !.hasGeneName = FALSE]),
      RawUpload(15, [RawWorkbook(<<>>) EXCEPT !.readable = FALSE]),
      NoRawFile }

CsvNames == { <<"c", ".", "c", "s", "v">>, <<"d", ".", "c", "s", "v">> }

CsvUploads ==
    { [name |-> n, frame |-> f] :
        n \in CsvNames,
        f \in { [kind |-> "csv", hasCov |-> TRUE,
                 rows |-> <<[Gene_Name |-> Str(X_), RefName |-> NA, Pct1x |-> Num(90, 1)]>>],
                [kind |-> "csv", hasCov |-> FALSE,
                 rows |-> <<[Gene_Name |-> Str(X_), RefName |-> NA, Pct1x |-> NA]>>] } }
    \cup { NoCsvFile }

MitoUploads ==
    { MitoWorkbook(<<[Name |-> Str(<<"X", "/", "1">>), Pct1x |-> Num(10, 1)]>>),
      [MitoWorkbook(<<>>) EXCEPT !.bytes.hasCov = FALSE],
      NoMitoFile }

GeneTexts == { <<"X", " ", "A", "\n", "X">>, <<"G">>, <<" ", ",">> }

Next ==
    \/ \E t \in {"csv", "raw"} : SelectInputType(t)
    \/ \E file \in RawUploads : UploadRawExcel(file)
    \/ \E file \in CsvUploads : UploadCoverageCsv(file)
    \/ \E file \in MitoUploads : UploadMitoFile(file)
    \/ \E gene_text \in GeneTexts : LoadGenes(gene_text)
    \/ GenerateWord

Init == AppInit /\ AggIdle /\ PipeIdle /\ ParseIdle /\ DocIdle

Spec == Init /\ [][Next]_vars

----------------------------------------------------------------------------
(* Claims about the session *)

\* the values a coverage upload produces
Held(ss) ==
    <<ss.coverage_data, ss.file_basename, ss.processed_csv, ss.last_processed_file,
      ss.filtered_data>>

CoverageUploadErrors ==
    {"read_excel", "Column 'Gene Name' not found", "No coverage column found"}

\* a coverage file was put into an uploader and the run reported its failure
FailedCoverageUpload ==
    /\ \/ ui'.raw_excel # ui.raw_excel /\ Uploaded(ui'.raw_excel)
       \/ ui'.coverage_file # ui.coverage_file /\ Uploaded(ui'.coverage_file)
    /\ run'.errors \cap CoverageUploadErrors # {}

\* C8: a failed coverage upload leaves coverage_data, file_basename,
\* processed_csv, last_processed_file and filtered_data as the previous
\* successful upload left them.
C8_FailedUploadKeepsSession ==
    [][(session_state.coverage_data # NoFrame /\ FailedCoverageUpload)
          => Held(session_state') = Held(session_state)]_vars

\* C9: with a raw Excel file as the current input and no error shown, the
\* session holds what aggregating that file's contents produces.
C9_CacheIsTransparent ==
    (ui.input_type = "raw" /\ Uploaded(ui.raw_excel) /\ run.errors = {}) =>
        LET r == preprocess_excel_cached(ui.raw_excel.bytes, ui.raw_excel.name)
        IN  /\ r.ok
            /\ session_state.coverage_data = r.coverage_df
            /\ session_state.processed_csv = to_csv(r.coverage_df)
            /\ session_state.file_basename = r.base_name

----------------------------------------------------------------------------
(* Claims about the gene list parser *)

\* the maximal runs of text without a character of seps, as <<first, last>>
Runs(text, seps) ==
    { <<a, b>> \in (1..Len(text)) \X (1..Len(text)) :
        /\ a <= b
        /\ \A i \in a..b : text[i] \notin seps
        /\ a = 1 \/ text[a - 1] \in seps
        /\ b = Len(text) \/ text[b + 1] \in seps }

\* a run's token with surrounding whitespace trimmed
Token(text, span) == Strip(SubSeq(text, span[1], span[2]))

\* where a token first occurs in the text
FirstOccurrence(text, seps, token) ==
    CHOOSE a \in 1..Len(text) :
        /\ \E span \in Runs(text, seps) : span[1] = a /\ Token(text, span) = token
        /\ \A span \in Runs(text, seps) : Token(text, span) = token => a <= span[1]

\* genes is the sequence of non-empty tokens of text split on seps, each
\* once, in the order of their first occurrences
IsTokenList(genes, text, seps) ==
    /\ Range(genes) = { Token(text, span) : span \in Runs(text, seps) } \ {<<>>}
    /\ \A i, j \in 1..Len(genes) :
          i < j => FirstOccurrence(text, seps, genes[i]) < FirstOccurrence(text, seps, genes[j])

\* C12 as stated: parse_gene_list returns the non-empty tokens obtained by
\* splitting on newline, comma, tab and space, each once at the position of
\* its first occurrence (so no empty token, no duplicate, and the empty
\* sequence for a text without token).
C12_TokensOfListedSeparators ==
    parseOut.called => IsTokenList(parseOut.genes, parseIn, {"\n", ",", "\t", " "})

\* C12 amended: parse_gene_list returns the non-empty tokens obtained by
\* splitting on comma and on every whitespace character, each once at the
\* position of its first occurrence.
C12_TokensOfCommaAndWhitespace ==
    parseOut.called => IsTokenList(parseOut.genes, parseIn, Whitespace \cup {","})

\* a text with a repeated token, and one holding two tokens in each order
C12_Witness ==
    /\ parseOut.called
    /\ parseOut.genes = <<<<"A">>, <<"X">>>>
    /\ Cardinality({ span \in Runs(parseIn, Whitespace \cup {","}) :
                        Token(parseIn, span) = <<"A">> }) = 2

----------------------------------------------------------------------------
(* Claims about the document builder *)

\* the positions <<data row, cell pair>> of the layout
Positions == { <<c, i>> : c \in 1..Len(docOut.rows), i \in 1..4 }

\* C14: a table of n rows gets ceil(n/4) data rows of 4 cell pairs; the k-th
\* gene is in the k-th cell pair in reading order and in no other; only the
\* last data row holds placeholders, in its last 4 - (n mod 4) positions when
\* n is not a multiple of 4.
C14_ChunksOfFour ==
    docOut.called =>
        LET n == Len(docIn.rows)
            layout == docOut.rows
        IN  /\ Len(layout) = (n + 3) \div 4
            /\ \A c \in 1..Len(layout) : Len(layout[c]) = 4
            /\ \A k \in 1..n :
                  { p \in Positions : /\ layout[p[1]][p[2]].kind = "gene"
                                      /\ layout[p[1]][p[2]].gene = docIn.rows[k].Gene_ID.v }
                      = { <<((k - 1) \div 4) + 1, ((k - 1) % 4) + 1>> }
            /\ { p \in Positions : layout[p[1]][p[2]].kind = "empty" }
                  = IF n % 4 = 0 THEN {}
                    ELSE { <<Len(layout), i>> : i \in ((n % 4) + 1)..4 }

\* a table that fills a data row and leaves two placeholders in the next
C14_Witness ==
    /\ docOut.called
    /\ Len(docIn.rows) = 6
    /\ Len(docOut.rows) = 2
    /\ docOut.rows[2][4].kind = "empty"

----------------------------------------------------------------------------
(* Claims about the Word document held in the session *)

\* the data rows of the document for the tables the session holds
DocumentOf(filtered_data, mito_data) ==
    create_word_document_with_mito(FinalTable(filtered_data, mito_data))

\* C16: whenever the download button offers a document, the stored doc_bytes
\* are the document of the filtered_data and mito_data the session holds, and
\* word_filename is the report name of its file_basename.
C16_OfferedDocumentIsCurrent ==
    (run.generate_shown /\ session_state.doc_bytes.saved) =>
        /\ session_state.doc_bytes.table
              = DocumentOf(session_state.filtered_data, session_state.mito_data)
        /\ session_state.word_filename = session_state.file_basename \o ReportSuffix

\* C17: after a run without an auxiliary file in its uploader, mito_data is
\* None, and a document built by that run holds the rows of the panel-filtered
\* table only.
C17_NoAuxiliaryFileNoAuxiliaryRows ==
    ~Uploaded(ui.mito_file) =>
        /\ session_state.mito_data = NoFrame
        /\ run.generated =>
              session_state.doc_bytes.table = DocumentOf(session_state.filtered_data, NoFrame)

====
